---- MODULE Spec2Model ----
(***************************************************************************)
(* A model of the k0 bytecode execution engine (src/k0.cc): the program    *)
(* model (Instruction, BasicBlock, Function), the execution frame          *)
(* (FunctionContext with its registers and owned Allocas), the call stack  *)
(* and the dispatch loop of ExecutionEngine.                               *)
(*                                                                         *)
(* Every operand, register value, register id and block id is an int64_t. *)
(* A 64-bit integer is kept at its full width as four 16-bit limbs, least  *)
(* significant first, in two's complement.                                 *)
(***************************************************************************)
EXTENDS Integers, Sequences, FiniteSets, TLC

VARIABLES prog, stack, heap, mem, out, status, calls, last

vars == <<prog, stack, heap, mem, out, status, calls, last>>

(***************************************************************************)
(* Bounds of the model.                                                    *)
(***************************************************************************)
\* number of regions the allocator can hand out before malloc returns NULL
NSlots == 2
\* largest request, in bytes, the allocator can satisfy
SlotBytes == 16
\* deepest call stack explored
MaxDepth == 3

(***************************************************************************)
(* int64_t                                                                 *)
(***************************************************************************)
Limb == 2 ^ 16

Int64 == [1..4 -> 0..(Limb - 1)]

\* the int64_t with the (small) integer value n
I(n) ==
  IF n >= 0
  THEN <<n % Limb, n \div Limb, 0, 0>>
  ELSE LET m == -(n + 1)
       IN <<Limb - 1 - (m % Limb), Limb - 1 - (m \div Limb), Limb - 1, Limb - 1>>

Zero == <<0, 0, 0, 0>>

MaxInt64 == <<Limb - 1, Limb - 1, Limb - 1, (Limb \div 2) - 1>>

MinInt64 == <<0, 0, 0, Limb \div 2>>

IsNeg(a) == a[4] >= Limb \div 2

\* an addition that clamps at the ends of the int64_t range
IAdd_saturating(a, b) ==
  LET s1 == a[1] + b[1]
      s2 == a[2] + b[2] + (s1 \div Limb)
      s3 == a[3] + b[3] + (s2 \div Limb)
      s4 == a[4] + b[4] + (s3 \div Limb)
      sum == <<s1 % Limb, s2 % Limb, s3 % Limb, s4 % Limb>>
  IN IF IsNeg(a) = IsNeg(b) /\ IsNeg(sum) # IsNeg(a)
     THEN (IF IsNeg(a) THEN MinInt64 ELSE MaxInt64)
     ELSE sum

\* an addition that takes its first operand twice
IAdd_first(a, b) ==
  LET s1 == a[1] + a[1]
      s2 == a[2] + a[2] + (s1 \div Limb)
      s3 == a[3] + a[3] + (s2 \div Limb)
      s4 == a[4] + a[4] + (s3 \div Limb)
  IN <<s1 % Limb, s2 % Limb, s3 % Limb, s4 % Limb>>

\* a + b on 64 bits, the carry out of the top limb dropped
IAdd(a, b) ==
  LET s1 == a[1] + b[1]
      s2 == a[2] + b[2] + (s1 \div Limb)
      s3 == a[3] + b[3] + (s2 \div Limb)
      s4 == a[4] + b[4] + (s3 \div Limb)
  IN <<s1 % Limb, s2 % Limb, s3 % Limb, s4 % Limb>>

\* unsigned comparison of the limbs, most significant first
ULess(a, b) ==
  \E k \in 1..4 : a[k] < b[k] /\ \A j \in (k + 1)..4 : a[j] = b[j]

\* a < b as int64_t
ILess(a, b) ==
  IF IsNeg(a) # IsNeg(b) THEN IsNeg(a) ELSE ULess(a, b)

\* the magnitude of a negative a, as an unsigned 64-bit number
Magnitude(a) ==
  IF IsNeg(a)
  THEN IAdd(<<Limb - 1 - a[1], Limb - 1 - a[2], Limb - 1 - a[3], Limb - 1 - a[4]>>, I(1))
  ELSE a

\* unsigned division by ten: the quotient's limbs and the remainder
DivMod10(u) ==
  LET c4 == u[4]
      c3 == (c4 % 10) * Limb + u[3]
      c2 == (c3 % 10) * Limb + u[2]
      c1 == (c2 % 10) * Limb + u[1]
  IN [q |-> <<c1 \div 10, c2 \div 10, c3 \div 10, c4 \div 10>>, r |-> c1 % 10]

Digit == <<"0", "1", "2", "3", "4", "5", "6", "7", "8", "9">>

\* the decimal digits of an unsigned 64-bit number, none for zero
Digits[u \in Int64] ==
  IF u = Zero THEN ""
  ELSE LET d == DivMod10(u) IN Digits[d.q] \o Digit[d.r + 1]

\* std::ostream << int64_t: decimal, a minus sign for a negative value
ToDecimal(a) ==
  IF a = Zero THEN "0"
  ELSE IF IsNeg(a) THEN "-" \o Digits[Magnitude(a)]
  ELSE Digits[a]


(***************************************************************************)
(* Program model: Instruction, BasicBlock, Function                        *)
(***************************************************************************)
ALLOCA == 0
IMM == 1
ADD == 2
CMP == 3
BR == 4
CALL == 5
RET == 6
COPY == 7
LOAD == 8
STORE == 9
DEBUG == 10

LT == -1
EQ == 0
GT == 1

\* struct Instruction { uint8_t op; std::vector<int64_t> operand; }
Ins(op, operand) == [op |-> op, operand |-> operand]

\* Instruction::get(i)
Get(i, k) == i.operand[k + 1]

\* struct BasicBlock { std::vector<Instruction> body_; }
Blk(body) == [body_ |-> body]

\* struct Function { entry_; basic_blocks_ }, the blocks keyed by int64_t
Fn(entry, blocks) == [entry_ |-> entry, basic_blocks_ |-> blocks]

\* Function::entry()
Entry(f) == f.entry_

\* a std::map with key k bound to v (operator[]= / first insertion)
Put(m, k, v) == [x \in (DOMAIN m) \cup {k} |-> IF x = k THEN v ELSE m[x]]

EmptyMap == [x \in {} |-> Zero]

(***************************************************************************)
(* Function objects live at distinct addresses; CALL carries such an       *)
(* address as an int64_t operand.  A program is the sequence of its        *)
(* Function objects, a Function* is an index into it.                      *)
(***************************************************************************)
\* where the Function objects start in the address space
FunctionBase == 1048576

AddrOfFunction(fid) == I(FunctionBase + 256 * fid)

NullRef == Zero

\* the first eight bytes of the Function object fid (of its name_ member),
\* which is what *(reinterpret_cast<int64_t *>(&Callee)) reads: a value that
\* is the address of no Function
FirstWordOfFunction(fid) == I(FunctionBase + 256 * fid + 16)

\* the Functions a CALL operand may turn out to designate
Resolved(ref) == {fid \in DOMAIN prog : AddrOfFunction(fid) = ref}

(***************************************************************************)
(* The heap: NSlots regions of SlotBytes bytes each, handed out by malloc  *)
(* and taken back by free.  heap[k] is the allocator's record of region k  *)
(* (with the depth of the frame that created it), mem the bytes, -1 an     *)
(* indeterminate byte.                                                     *)
(***************************************************************************)
Slots == 0..(NSlots - 1)

ArenaBytes == NSlots * SlotBytes

\* where the arena starts in the address space
HeapBase == 24576

\* the address of byte idx of the arena, as the int64_t a register holds
Ptr(idx) == I(HeapBase + idx)

SlotBase(k) == Ptr(k * SlotBytes)

\* the arena index an int64_t designates, -1 when it points outside the arena
Index(v) ==
  IF v[2] = 0 /\ v[3] = 0 /\ v[4] = 0 /\ v[1] >= HeapBase /\ v[1] < HeapBase + ArenaBytes
  THEN v[1] - HeapBase ELSE -1

SlotOf(p) == Index(p) \div SlotBytes

FreeSlot == [live |-> FALSE, size |-> 0, owner |-> 0]

\* (size_t)sz is a size the allocator can satisfy
SizeFits(sz) == sz[2] = 0 /\ sz[3] = 0 /\ sz[4] = 0 /\ sz[1] <= SlotBytes

\* malloc(sz): the base of any free region, NULL when none can satisfy it
Malloc(sz) ==
  LET free == {k \in Slots : ~heap[k].live}
  IN IF SizeFits(sz) /\ free # {} THEN {SlotBase(k) : k \in free} ELSE {Zero}

\* the bytes of region k made indeterminate (fresh from malloc, or freed)
Scrub(m, ks) ==
  [x \in DOMAIN m |-> IF (x \div SlotBytes) \in ks THEN -1 ELSE m[x]]

\* the eight bytes at v lie inside one live allocation
Valid8(v) ==
  \E k \in Slots :
    /\ heap[k].live
    /\ Index(v) >= k * SlotBytes
    /\ Index(v) + 8 <= k * SlotBytes + heap[k].size

\* v points into the unmapped first page of the address space (NULL and
\* the small integers)
NullPage(v) == v[2] = 0 /\ v[3] = 0 /\ v[4] = 0 /\ v[1] < 4096

\* the eight bytes at v lie inside the arena
InArena8(v) == Index(v) >= 0 /\ Index(v) + 8 <= ArenaBytes

\* byte j (0..7) of an int64_t, little-endian
ByteOf(a, j) ==
  LET l == a[(j \div 2) + 1] IN IF j % 2 = 0 THEN l % 256 ELSE l \div 256

\* a store of the low four bytes only
Poke_half(m, idx, val) ==
  [x \in DOMAIN m |-> IF x >= idx /\ x < idx + 4 THEN ByteOf(val, x - idx) ELSE m[x]]

\* *dst = val
Poke(m, idx, val) ==
  [x \in DOMAIN m |-> IF x >= idx /\ x < idx + 8 THEN ByteOf(val, x - idx) ELSE m[x]]

\* what an indeterminate 8-byte read may deliver
IndeterminateVals == {Zero, I(-1)}

\* *src
Peek(m, idx) ==
  IF \E j \in 0..7 : m[idx + j] < 0
  THEN IndeterminateVals
  ELSE {<<m[idx] + 256 * m[idx + 1], m[idx + 2] + 256 * m[idx + 3],
          m[idx + 4] + 256 * m[idx + 5], m[idx + 6] + 256 * m[idx + 7]>>}

(***************************************************************************)
(* FunctionContext                                                         *)
(***************************************************************************)
\* a FunctionContext as emplace_back() constructs it, its pc then set to f's entry
NewContext_inherit(f) ==
  [allocas |-> EmptyMap,
   values |-> IF stack = <<>> THEN EmptyMap ELSE stack[Len(stack)].values,
   pc |-> [f |-> f, ib |-> Entry(prog[f]), ii |-> 0]]

NewContext_skip(f) ==
  [allocas |-> EmptyMap, values |-> EmptyMap,
   pc |-> [f |-> f, ib |-> Entry(prog[f]), ii |-> 1]]

NewContext(f) ==
  [allocas |-> EmptyMap, values |-> EmptyMap,
   pc |-> [f |-> f, ib |-> Entry(prog[f]), ii |-> 0]]

\* an Assign that keeps an existing binding, as values.insert would
Assign_keep(ctx, reg, val) ==
  IF reg \in DOMAIN ctx.values THEN ctx ELSE [ctx EXCEPT !.values = Put(@, reg, val)]

\* FunctionContext::Assign
Assign(ctx, reg, val) == [ctx EXCEPT !.values = Put(@, reg, val)]

\* FunctionContext::GetVal: values[reg], which value-initialises an absent reg
GetVal(ctx, reg) == IF reg \in DOMAIN ctx.values THEN ctx.values[reg] ELSE Zero

\* the context after GetVal(reg): operator[] has inserted an absent reg
AfterGetVal(ctx, reg) ==
  [ctx EXCEPT !.values = IF reg \in DOMAIN @ THEN @ ELSE Put(@, reg, Zero)]

\* allocas.insert({reg, alloca}): no effect when reg already has an entry
InsertAlloca(allocas, reg, a) ==
  IF reg \in DOMAIN allocas THEN allocas ELSE Put(allocas, reg, a)

\* the regions released by ~FunctionContext: ~Alloca frees every non-null base
Released_leak(ctx) == {}

Released(ctx) ==
  {SlotOf(ctx.allocas[r].base) : r \in {x \in DOMAIN ctx.allocas : ctx.allocas[x].base # Zero}}

\* free() of the regions ks
FreeAll(h, ks) == [k \in DOMAIN h |-> IF k \in ks THEN FreeSlot ELSE h[k]]

(***************************************************************************)
(* ExecutionEngine                                                         *)
(*                                                                         *)
(* status: "idle" after construction, "running" inside Execute(), "done"   *)
(* once Execute() has returned, "fault" once the process has been aborted  *)
(* (a failed assert, a trap).  calls and last observe the run: calls[k] is *)
(* the caller's context as it was when the CALL that pushed frame k was    *)
(* fetched, last the instruction dispatched by the latest step with the    *)
(* top context it was fetched in.                                          *)
(***************************************************************************)
NoIns == Ins(-1, <<>>)

NoCtx == [allocas |-> EmptyMap, values |-> EmptyMap,
          pc |-> [f |-> 0, ib |-> Zero, ii |-> 0]]

Top == stack[Len(stack)]

\* the write-back landing in stack_.front()
SetTop_first(ctx) == [stack EXCEPT ![1] = ctx]

SetTop(ctx) == [stack EXCEPT ![Len(stack)] = ctx]

Did(i) == [ins |-> i, pre |-> Top, depth |-> Len(stack)]

\* basic_blocks_[pc.ib]: std::map::operator[] inserts an empty BasicBlock for
\* an absent key
Lookup(blocks, ib) ==
  IF ib \in DOMAIN blocks THEN blocks ELSE Put(blocks, ib, Blk(<<>>))

ProgAfterFetch ==
  [prog EXCEPT ![Top.pc.f].basic_blocks_ = Lookup(@, Top.pc.ib)]

\* the body_ the fetch indexes
Body_fallback ==
  LET blocks == prog[Top.pc.f].basic_blocks_
  IN IF Top.pc.ib \in DOMAIN blocks THEN blocks[Top.pc.ib].body_
     ELSE blocks[CHOOSE b \in DOMAIN blocks : TRUE].body_

Body == Lookup(prog[Top.pc.f].basic_blocks_, Top.pc.ib)[Top.pc.ib].body_

\* what body_[pc.ii] past the end of a non-empty body_ may read as an
\* Instruction: storage next to the vector's elements
GarbageInstrs == {Ins(RET, <<>>), Ins(255, <<>>)}

\* the Instructions body_[pc.ii++] may deliver.  Inside the body it is the
\* instruction there.  An empty body_ has null storage, so the read of i.op
\* is a read of the null page and delivers nothing (FetchFault).
Fetched ==
  IF Top.pc.ii < Len(Body) THEN {Body[Top.pc.ii + 1]}
  ELSE IF Len(Body) = 0 THEN {}
  ELSE GarbageInstrs

\* a fetch that advances pc.ii by two
CtxF_two == [Top EXCEPT !.pc.ii = @ + 2]

\* the top context once pc.ii++ has run
CtxF == [Top EXCEPT !.pc.ii = @ + 1]

Running == status = "running"

\* while (!stack_.empty()): the loop's state after a step that left stack s
LoopStatus_early(s) == IF Len(s) <= 1 THEN "done" ELSE "running"

LoopStatus(s) == IF s = <<>> THEN "done" ELSE "running"

\* ExecuteEntry(f)
ExecuteEntry ==
  /\ status = "idle"
  /\ \E f \in DOMAIN prog :
       /\ stack' = Append(stack, NewContext(f))
       /\ calls' = Append(calls, NoCtx)
  /\ status' = LoopStatus(stack')
  /\ UNCHANGED <<prog, heap, mem, out, last>>

\* the read of body_[pc.ii] traps: null storage, or storage past the end
FetchFault ==
  /\ Running
  /\ Top.pc.ii >= Len(Body)
  /\ prog' = ProgAfterFetch
  /\ stack' = SetTop(CtxF)
  /\ status' = "fault"
  /\ last' = Did(NoIns)
  /\ UNCHANGED <<heap, mem, out, calls>>

\* case ALLOCA: ctx.Allocate(reg, size).  The Alloca that insert() does not
\* take is destroyed with the temporary pair, which frees its region.
ExecALLOCA ==
  /\ Running
  /\ \E i \in Fetched :
       /\ i.op = ALLOCA
       /\ \E p \in Malloc(Get(i, 1)) :
            LET reg == Get(i, 0)
                taken == reg \notin DOMAIN CtxF.allocas
                a == [base |-> p, size |-> Get(i, 1)]
            IN /\ stack' = SetTop([Assign(CtxF, reg, p) EXCEPT
                                     !.allocas = InsertAlloca(@, reg, a)])
               /\ heap' = IF p # Zero /\ taken
                          THEN [heap EXCEPT ![SlotOf(p)] =
                                  [live |-> TRUE, size |-> Get(i, 1)[1],
                                   owner |-> Len(stack)]]
                          ELSE heap
               /\ mem' = IF p # Zero THEN Scrub(mem, {SlotOf(p)}) ELSE mem
       /\ last' = Did(i)
  /\ prog' = ProgAfterFetch
  /\ UNCHANGED <<out, status, calls>>

\* case IMM
ExecIMM ==
  /\ Running
  /\ \E i \in Fetched :
       /\ i.op = IMM
       /\ stack' = SetTop(Assign(CtxF, Get(i, 0), Get(i, 1)))
       /\ last' = Did(i)
  /\ prog' = ProgAfterFetch
  /\ UNCHANGED <<heap, mem, out, status, calls>>

\* case ADD, on the context ctx the fetch left
AddCtx(ctx, i) ==
  LET op0_val == GetVal(ctx, Get(i, 1))
      c1 == AfterGetVal(ctx, Get(i, 1))
      op1_val == GetVal(c1, Get(i, 2))
      c2 == AfterGetVal(c1, Get(i, 2))
  IN Assign(c2, Get(i, 0), IAdd(op0_val, op1_val))

ExecADD ==
  /\ Running
  /\ \E i \in Fetched :
       /\ i.op = ADD
       /\ stack' = SetTop(AddCtx(CtxF, i))
       /\ last' = Did(i)
  /\ prog' = ProgAfterFetch
  /\ UNCHANGED <<heap, mem, out, status, calls>>

\* the comparison taken on the unsigned bit patterns
Flag_unsigned(op0_val, op1_val) ==
  IF op0_val = op1_val THEN I(EQ) ELSE IF ULess(op0_val, op1_val) THEN I(LT) ELSE I(GT)

\* int64_t flag = op0_val == op1_val ? EQ : (op0_val < op1_val ? LT : GT)
Flag(op0_val, op1_val) ==
  IF op0_val = op1_val THEN I(EQ) ELSE IF ILess(op0_val, op1_val) THEN I(LT) ELSE I(GT)

\* case CMP
ExecCMP ==
  /\ Running
  /\ \E i \in Fetched :
       /\ i.op = CMP
       /\ LET cond == Get(i, 1)
              op0_val == GetVal(CtxF, Get(i, 2))
              c1 == AfterGetVal(CtxF, Get(i, 2))
              op1_val == GetVal(c1, Get(i, 3))
              c2 == AfterGetVal(c1, Get(i, 3))
              flag == Flag(op0_val, op1_val)
          IN stack' = SetTop(Assign(c2, Get(i, 0), IF flag = cond THEN I(1) ELSE I(0)))
       /\ last' = Did(i)
  /\ prog' = ProgAfterFetch
  /\ UNCHANGED <<heap, mem, out, status, calls>>

\* case COPY
ExecCOPY ==
  /\ Running
  /\ \E i \in Fetched :
       /\ i.op = COPY
       /\ LET src_val == GetVal(CtxF, Get(i, 1))
              c1 == AfterGetVal(CtxF, Get(i, 1))
          IN stack' = SetTop(Assign(c1, Get(i, 0), src_val))
       /\ last' = Did(i)
  /\ prog' = ProgAfterFetch
  /\ UNCHANGED <<heap, mem, out, status, calls>>

\* case LOAD: *src through the address in the register.  Inside a live
\* allocation the read delivers the bytes there.  Elsewhere in the arena it
\* delivers the bytes there or traps; outside the arena it traps, or (not
\* in the null page) delivers whatever is mapped there.
ExecLOAD ==
  /\ Running
  /\ \E i \in Fetched :
       /\ i.op = LOAD
       /\ LET src == GetVal(CtxF, Get(i, 1))
              c1 == AfterGetVal(CtxF, Get(i, 1))
              readable == IF InArena8(src) THEN Peek(mem, Index(src))
                          ELSE IF NullPage(src) THEN {} ELSE IndeterminateVals
          IN \/ \E v \in readable :
                  /\ stack' = SetTop(Assign(c1, Get(i, 0), v))
                  /\ status' = status
             \/ /\ ~Valid8(src)
                /\ stack' = SetTop(c1)
                /\ status' = "fault"
       /\ last' = Did(i)
  /\ prog' = ProgAfterFetch
  /\ UNCHANGED <<heap, mem, out, calls>>

\* case STORE: *dst = src_val.  Inside the arena the bytes are written (a
\* write outside a live allocation may trap instead); outside the arena the
\* write traps, or (not in the null page) lands in memory the model does not
\* hold.
ExecSTORE ==
  /\ Running
  /\ \E i \in Fetched :
       /\ i.op = STORE
       /\ LET dst == GetVal(CtxF, Get(i, 1))
              c1 == AfterGetVal(CtxF, Get(i, 1))
              src_val == GetVal(c1, Get(i, 0))
              c2 == AfterGetVal(c1, Get(i, 0))
          IN \/ /\ InArena8(dst) \/ ~NullPage(dst)
                /\ stack' = SetTop(c2)
                /\ mem' = IF InArena8(dst) THEN Poke(mem, Index(dst), src_val) ELSE mem
                /\ status' = status
             \/ /\ ~Valid8(dst)
                /\ stack' = SetTop(c2)
                /\ mem' = mem
                /\ status' = "fault"
       /\ last' = Did(i)
  /\ prog' = ProgAfterFetch
  /\ UNCHANGED <<heap, out, calls>>

\* a branch taken only on a positive flag
BrTarget_positive(i, flag_val) ==
  IF flag_val # Zero /\ ~IsNeg(flag_val) THEN Get(i, 1) ELSE Get(i, 2)

\* if (flag_val) pc.ib = i.get(1); else pc.ib = i.get(2);
BrTarget(i, flag_val) == IF flag_val # Zero THEN Get(i, 1) ELSE Get(i, 2)

\* case BR
ExecBR ==
  /\ Running
  /\ \E i \in Fetched :
       /\ i.op = BR
       /\ LET flag_val == GetVal(CtxF, Get(i, 0))
              c1 == AfterGetVal(CtxF, Get(i, 0))
          IN stack' = SetTop([c1 EXCEPT !.pc.ii = 0, !.pc.ib = BrTarget(i, flag_val)])
       /\ last' = Did(i)
  /\ prog' = ProgAfterFetch
  /\ UNCHANGED <<heap, mem, out, status, calls>>

\* case CALL.  assert(f) aborts on a null reference; a reference that is not
\* null and is the address of no Function is dereferenced all the same: the
\* run traps or goes on in whatever Function the bytes there pass for.
ExecCALL ==
  /\ Running
  /\ \E i \in Fetched :
       /\ i.op = CALL
       /\ LET f == Get(i, 0)
              targets == IF Resolved(f) # {} THEN Resolved(f) ELSE DOMAIN prog
          IN \/ /\ f = NullRef
                /\ stack' = SetTop(CtxF)
                /\ calls' = calls
                /\ status' = "fault"
             \/ /\ f # NullRef
                /\ Len(stack) < MaxDepth
                /\ \E g \in targets :
                     stack' = Append(SetTop(CtxF), NewContext(g))
                /\ calls' = Append(calls, Top)
                /\ status' = status
             \/ /\ f # NullRef
                /\ Resolved(f) = {}
                /\ stack' = SetTop(CtxF)
                /\ calls' = calls
                /\ status' = "fault"
       /\ last' = Did(i)
  /\ prog' = ProgAfterFetch
  /\ UNCHANGED <<heap, mem, out>>

\* a RET that leaves the frame on the stack
Pop_keep(s) == s

\* what stack_.pop_back() leaves
Pop(s) == SubSeq(s, 1, Len(s) - 1)

\* case RET: stack_.pop_back() destroys the top FunctionContext
ExecRET ==
  /\ Running
  /\ \E i \in Fetched :
       /\ i.op = RET
       /\ last' = Did(i)
  /\ stack' = Pop(stack)
  /\ calls' = SubSeq(calls, 1, Len(stack'))
  /\ heap' = FreeAll(heap, Released(CtxF))
  /\ mem' = Scrub(mem, Released(CtxF))
  /\ status' = LoopStatus(stack')
  /\ prog' = ProgAfterFetch
  /\ UNCHANGED <<out>>

\* case DEBUG
ExecDEBUG ==
  /\ Running
  /\ \E i \in Fetched :
       /\ i.op = DEBUG
       /\ out' = Append(out, ToDecimal(GetVal(CtxF, Get(i, 0))))
       /\ stack' = SetTop(AfterGetVal(CtxF, Get(i, 0)))
       /\ last' = Did(i)
  /\ prog' = ProgAfterFetch
  /\ UNCHANGED <<heap, mem, status, calls>>

Opcodes == {ALLOCA, IMM, ADD, CMP, BR, CALL, RET, COPY, LOAD, STORE, DEBUG}

\* what assert(false && "Unsupported opcode") leaves the run in
Unsupported_skip == "running"

Unsupported == "fault"

\* default
ExecDefault ==
  /\ Running
  /\ \E i \in Fetched :
       /\ i.op \notin Opcodes
       /\ last' = Did(i)
  /\ stack' = SetTop(CtxF)
  /\ status' = Unsupported
  /\ prog' = ProgAfterFetch
  /\ UNCHANGED <<heap, mem, out, calls>>

(***************************************************************************)
(* Programs.  The engine takes its program ready built; these are the      *)
(* programs it is run on: <<F, Callee, Leaf>>, each a Function.            *)
(***************************************************************************)
iALLOCA(r, n) == Ins(ALLOCA, <<I(r), n>>)
iIMM(r, v) == Ins(IMM, <<I(r), v>>)
iADD(d, a, b) == Ins(ADD, <<I(d), I(a), I(b)>>)
iCMP(d, c, a, b) == Ins(CMP, <<I(d), I(c), I(a), I(b)>>)
iBR(r, t, f) == Ins(BR, <<I(r), I(t), I(f)>>)
iCALL(ref) == Ins(CALL, <<ref>>)
iRET == Ins(RET, <<>>)
iCOPY(d, s) == Ins(COPY, <<I(d), I(s)>>)
iLOAD(d, a) == Ins(LOAD, <<I(d), I(a)>>)
iSTORE(s, a) == Ins(STORE, <<I(s), I(a)>>)
iDEBUG(r) == Ins(DEBUG, <<I(r)>>)

\* a Function whose only block is its entry block 0
Single(body) == Fn(I(0), I(0) :> Blk(body))

\* a Function with entry block 0 and the two blocks a BR of it may pick
Branching(body) ==
  Fn(I(0), I(0) :> Blk(body)
        @@ I(1) :> Blk(<<iDEBUG(1), iRET>>)
        @@ I(2) :> Blk(<<iIMM(2, I(-1024)), iDEBUG(2), iRET>>))

Returns == Single(<<iRET>>)

\* main(): F's entry block as the emplace_back calls build it, Callee a RET.
\* The CALL operand is the first word of the Callee object, the second
\* DEBUG names register 3.
DemoAsBuilt ==
  <<Single(<<iIMM(1, I(4096)), Ins(DEBUG, <<I(1), I(4096)>>), iIMM(1, I(1024)),
             iCALL(FirstWordOfFunction(2)), iIMM(2, I(-1024)), iDEBUG(3), iRET>>),
    Returns, Returns>>

\* the same program with the CALL operand the address of Callee and the
\* second DEBUG on register 2
DemoAsDescribed ==
  <<Single(<<iIMM(1, I(4096)), iDEBUG(1), iIMM(1, I(1024)),
             iCALL(AddrOfFunction(2)), iIMM(2, I(-1024)), iDEBUG(2), iRET>>),
    Returns, Returns>>

ArithVals == {Zero, I(1), I(-1), MaxInt64, MinInt64}

ArithOps ==
  {iADD(3, 1, 2), iADD(3, 2, 1), iADD(1, 1, 2), iCOPY(3, 1), iCOPY(1, 1)}
  \cup {iCMP(3, c, 1, 2) : c \in {LT, EQ, GT, 2}}
  \cup {iCMP(3, c, 1, 1) : c \in {LT, EQ, GT}}
  \cup {iCMP(1, GT, 1, 2), iCMP(2, LT, 1, 2)}

ArithPrograms ==
  {<<Single(<<iIMM(1, a), iIMM(2, b), x, iDEBUG(3), iRET>>), Returns, Returns>> :
     a \in ArithVals, b \in ArithVals, x \in ArithOps}

\* every kind of instruction that reads a register, after zero or one IMM
Readers ==
  {iADD(3, 1, 2), iCMP(3, EQ, 1, 2), iCOPY(3, 1), iLOAD(3, 1), iSTORE(2, 1),
   iBR(1, 1, 2), iDEBUG(1)}

ReaderPrograms ==
  {<<Branching(s \o <<x, iDEBUG(3), iRET>>), Returns, Returns>> :
     s \in {<<>>, <<iIMM(1, I(5))>>, <<iIMM(2, I(5))>>}, x \in Readers}

BlockIds == {0, 1, 2, 9}

BranchPrograms ==
  {<<Branching(<<iIMM(1, v), iBR(1, t, f)>>), Returns, Returns>> :
     v \in {Zero, I(1), I(-1), I(4096), MinInt64}, t \in BlockIds, f \in BlockIds}

\* a two-block counter: r1 counts up from -2 until it is 0
Counter ==
  <<Fn(I(0), I(0) :> Blk(<<iIMM(1, I(-2)), iIMM(2, I(1)), iBR(2, 1, 1)>>)
          @@ I(1) :> Blk(<<iADD(1, 1, 2), iDEBUG(1), iBR(1, 1, 2)>>)
          @@ I(2) :> Blk(<<iDEBUG(1), iRET>>)),
    Returns, Returns>>

MainSetups ==
  {<<>>, <<iIMM(1, I(7))>>, <<iALLOCA(1, I(8))>>, <<iIMM(1, I(7)), iALLOCA(2, I(8))>>}

CallRefs == {AddrOfFunction(2), AddrOfFunction(1), NullRef, FirstWordOfFunction(2)}

CalleeBodies ==
  {<<iRET>>, <<iDEBUG(1), iRET>>, <<iCOPY(2, 1), iRET>>, <<iIMM(1, I(5))>>,
   <<iCALL(NullRef), iRET>>, <<Ins(255, <<>>), iRET>>,
   <<iALLOCA(1, I(8)), iALLOCA(1, I(8)), iRET>>,
   <<iALLOCA(1, I(8)), iCALL(AddrOfFunction(3)), iDEBUG(1), iRET>>,
   <<iIMM(1, I(3)), iCALL(AddrOfFunction(3)), iDEBUG(1), iRET>>}
  \cup {<<iIMM(r, I(3)), iRET>> : r \in {1, 2}}
  \cup {<<iALLOCA(r, I(8)), iRET>> : r \in {1, 2}}

Callees == {Single(b) : b \in CalleeBodies} \cup {Fn(I(9), I(0) :> Blk(<<iRET>>))}

Leaves == {Returns, Single(<<iIMM(1, I(9)), iALLOCA(2, I(8)), iRET>>)}

CallPrograms ==
  {<<Single(s \o <<iCALL(ref), iDEBUG(1), iRET>>), c, l>> :
     s \in MainSetups, ref \in CallRefs, c \in Callees, l \in Leaves}

AllocSizes == {Zero, I(4), I(8), I(16), I(-1)}

\* allocate, store, load back; a second ALLOCA on register r
MemoryPrograms ==
  {<<Single(<<iALLOCA(1, n), iALLOCA(r, I(8)), iIMM(3, I(4096)), iSTORE(3, 1),
              iLOAD(2, 1), iDEBUG(2), iRET>>), Returns, Returns>> :
     n \in AllocSizes, r \in {1, 2}}

\* Callee leaves the address of its own allocation in the caller's region,
\* which it reaches by its address; the caller follows it after the RET
UseAfterReturn ==
  <<Single(<<iALLOCA(1, I(16)), iCALL(AddrOfFunction(2)), iLOAD(2, 1),
             iLOAD(3, 2), iDEBUG(3), iRET>>),
    Single(<<iALLOCA(1, I(8)), iIMM(2, SlotBase(0)), iSTORE(1, 2), iRET>>),
    Returns>>

\* a value stored at the base of a 16-byte region and loaded back after the
\* source register was rebound, a second STORE went to the region's upper
\* half and a Callee stored into a region of its own
RoundTrip ==
  <<Single(<<iALLOCA(1, I(16)), iIMM(3, I(4096)), iSTORE(3, 1), iIMM(2, I(8)),
             iADD(2, 1, 2), iIMM(3, I(7)), iSTORE(3, 2), iCALL(AddrOfFunction(2)),
             iLOAD(3, 1), iDEBUG(3), iRET>>),
    Single(<<iALLOCA(1, I(8)), iIMM(2, I(5)), iSTORE(2, 1), iRET>>),
    Returns>>

FaultPrograms ==
  {<<Single(s \o <<x, iDEBUG(1), iRET>>), Returns, Returns>> :
     s \in {<<>>, <<iIMM(1, I(7)), iDEBUG(1)>>},
     x \in {Ins(11, <<>>), Ins(255, <<I(1)>>), iCALL(NullRef)}}

TraceOps == {iIMM(1, I(4096)), iIMM(1, I(-1024)), iIMM(2, Zero), iDEBUG(1), iDEBUG(2)}

\* IMM and DEBUG only, then the RET that ends the run
TracePrograms ==
  {<<Single(<<x, y, z, iRET>>), Returns, Returns>> :
     x \in TraceOps, y \in TraceOps, z \in TraceOps}

Programs ==
  {DemoAsBuilt, DemoAsDescribed, Counter, UseAfterReturn, RoundTrip}
  \cup ArithPrograms \cup ReaderPrograms \cup BranchPrograms \cup CallPrograms
  \cup MemoryPrograms \cup FaultPrograms \cup TracePrograms

Init ==
  /\ prog \in Programs
  /\ stack = <<>>
  /\ heap = [k \in Slots |-> FreeSlot]
  /\ mem = [x \in 0..(ArenaBytes - 1) |-> -1]
  /\ out = <<>>
  /\ status = "idle"
  /\ calls = <<>>
  /\ last = [ins |-> NoIns, pre |-> NoCtx, depth |-> 0]

Next ==
  \/ ExecuteEntry
  \/ FetchFault
  \/ ExecALLOCA
  \/ ExecIMM
  \/ ExecADD
  \/ ExecCMP
  \/ ExecCOPY
  \/ ExecLOAD
  \/ ExecSTORE
  \/ ExecBR
  \/ ExecCALL
  \/ ExecRET
  \/ ExecDEBUG
  \/ ExecDefault

Spec == Init /\ [][Next]_vars

\* Execute's loop runs ExecuteInstruction for as long as the stack is not
\* empty and nothing else runs: a step that can be taken is taken
FairSpec == Spec /\ WF_vars(Next)

(***************************************************************************)
(* Properties                                                              *)
(***************************************************************************)
\* the blocks of the function the top frame is in
TopBlocks == prog[Top.pc.f].basic_blocks_

\* the top frame's pc designates an instruction of the program
AtInstruction ==
  /\ status = "running"
  /\ Top.pc.ib \in DOMAIN TopBlocks
  /\ Top.pc.ii < Len(TopBlocks[Top.pc.ib].body_)

\* the instruction the next step fetches
NextIns == IF AtInstruction THEN TopBlocks[Top.pc.ib].body_[Top.pc.ii + 1] ELSE NoIns

\* the registers an instruction reads
ReadsOf(i) ==
  CASE i.op = ADD -> {Get(i, 1), Get(i, 2)}
    [] i.op = CMP -> {Get(i, 2), Get(i, 3)}
    [] i.op = COPY -> {Get(i, 1)}
    [] i.op = LOAD -> {Get(i, 1)}
    [] i.op = STORE -> {Get(i, 0), Get(i, 1)}
    [] i.op = BR -> {Get(i, 0)}
    [] i.op = DEBUG -> {Get(i, 0)}
    [] OTHER -> {}

\* the frames below the top are what they were
LowerFramesKept ==
  \A k \in 1..(Len(stack) - 1) : k <= Len(stack') /\ stack'[k] = stack[k]

\* C1: an instruction that reads a register not bound in the top frame
\* faults the run.
C1_UnboundReadFaults ==
  (\E r \in ReadsOf(last.ins) : r \notin DOMAIN last.pre.values) => status = "fault"

\* C2: run on F, the demonstration program main() builds emits exactly the
\* lines 4096 and -1024 and ends with an empty call stack and no fault.
C2_DemoOutput ==
  prog = DemoAsBuilt =>
    /\ status = "fault" => stack[1].pc.f # 1
    /\ (status = "done" /\ last.pre.pc.f = 1) => out = <<"4096", "-1024">>

\* the program the claim describes, run on F, emits 4096 and -1024
DemoAsDescribedOutput ==
  prog = DemoAsDescribed =>
    /\ status = "fault" => stack[1].pc.f # 1
    /\ (status = "done" /\ last.pre.pc.f = 1) => out = <<"4096", "-1024">>

\* C3: when the top frame's block id is no key of its function's block map,
\* the next step is a fault: no instruction is dispatched, no frame, register,
\* allocation or output changes.
C3_MissingBlockFaults ==
  [][(status = "running" /\ Top.pc.ib \notin DOMAIN TopBlocks) =>
       /\ status' = "fault"
       /\ last'.ins = NoIns
       /\ Len(stack') = Len(stack)
       /\ LowerFramesKept
       /\ stack'[Len(stack)].values = Top.values
       /\ stack'[Len(stack)].allocas = Top.allocas
       /\ UNCHANGED <<heap, mem, out>>]_vars

C3_Witness ==
  /\ status = "fault"
  /\ last.ins = NoIns
  /\ last.pre.pc.ib = I(9)
  /\ last.pre.values # EmptyMap
  /\ prog[last.pre.pc.f].basic_blocks_[I(9)].body_ = <<>>

\* C4: an unknown opcode, and a CALL of a null reference, abort the run:
\* the step leaves the run faulted with the stack depth, the allocations and
\* the output as they were, and no step follows a fault.
C4_FaultAborts ==
  [][/\ (NextIns # NoIns /\ NextIns.op \notin Opcodes) \/
        (NextIns.op = CALL /\ Get(NextIns, 0) = NullRef) =>
          /\ status' = "fault"
          /\ Len(stack') = Len(stack)
          /\ LowerFramesKept
          /\ UNCHANGED <<heap, mem, out>>
     /\ status # "fault"]_vars

C4_Witness ==
  /\ status = "fault"
  /\ last.ins # NoIns
  /\ last.ins.op \notin Opcodes
  /\ out = <<"7">>
  /\ Len(stack) = 1

\* C5: the run is over exactly when the call stack is empty: it is running
\* only with a non-empty stack, it is done as soon as the stack is empty and
\* not before, a step is taken only from a non-empty stack and (below the
\* depth explored) one is taken from every non-empty stack, RET in the only
\* frame ends the run and RET above a caller does not; ExecuteEntry starts
\* it with one frame at the function's entry block, index 0.
C5_EndsWhenStackEmpty ==
  /\ [](status = "running" => stack # <<>>)
  /\ [](status = "done" <=> (stack = <<>> /\ status # "idle"))
  /\ [](status = "done" => ~ENABLED Next)
  /\ []((status = "running" /\ Len(stack) < MaxDepth) => ENABLED Next)
  /\ [][/\ status = "idle" =>
             /\ Len(stack') = 1
             /\ stack'[1].pc.ib = prog[stack'[1].pc.f].entry_
             /\ stack'[1].pc.ii = 0
             /\ status' = "running"
        /\ status # "idle" => stack # <<>>
        /\ NextIns.op = RET =>
             /\ Len(stack') = Len(stack) - 1
             /\ status' = IF Len(stack) = 1 THEN "done" ELSE "running"]_vars

C5_Witness ==
  /\ status = "done"
  /\ stack = <<>>
  /\ last.ins.op = RET
  /\ last.depth = 1
  /\ prog = DemoAsDescribed
  /\ out # <<>>

\* C6: a CALL of the address of a Function pushes one frame at that
\* function's entry block, index 0; the RET of that frame pops it and the
\* caller goes on at the instruction after the CALL, in the CALL's function
\* and block.
C6_CallAndReturn ==
  [][/\ (NextIns.op = CALL /\ Resolved(Get(NextIns, 0)) # {}) =>
          /\ Len(stack') = Len(stack) + 1
          /\ LowerFramesKept
          /\ \E g \in Resolved(Get(NextIns, 0)) :
               stack'[Len(stack')].pc = [f |-> g, ib |-> prog[g].entry_, ii |-> 0]
          /\ stack'[Len(stack)].pc = [Top.pc EXCEPT !.ii = @ + 1]
     /\ (NextIns.op = RET /\ Len(stack) > 1) =>
          /\ Len(stack') = Len(stack) - 1
          /\ LowerFramesKept
          /\ stack'[Len(stack')].pc =
               [calls[Len(stack)].pc EXCEPT !.ii = @ + 1]]_vars

C6_Witness ==
  /\ status = "running"
  /\ last.ins.op = RET
  /\ last.depth = 2
  /\ Top.pc.ii >= 2
  /\ TopBlocks[Top.pc.ib].body_[Top.pc.ii].op = CALL
  /\ NextIns.op = DEBUG

\* C7: a frame pushed by CALL starts with no register bound and no
\* allocation, whatever the caller holds; while it runs and once it has
\* returned, the caller's registers and owned allocations are what they were
\* when the CALL was fetched.
C7_FrameLocalRegisters ==
  /\ [](\A k \in 2..Len(stack) :
          /\ stack[k - 1].values = calls[k].values
          /\ stack[k - 1].allocas = calls[k].allocas)
  /\ [][/\ NextIns.op = CALL /\ status' = "running" =>
             /\ stack'[Len(stack')].values = EmptyMap
             /\ stack'[Len(stack')].allocas = EmptyMap
        /\ (NextIns.op = RET /\ Len(stack) > 1) =>
             /\ stack'[Len(stack')].values = calls[Len(stack)].values
             /\ stack'[Len(stack')].allocas = calls[Len(stack)].allocas
             /\ \A r \in DOMAIN stack'[Len(stack')].allocas :
                  LET b == stack'[Len(stack')].allocas[r].base
                  IN b # Zero => heap'[SlotOf(b)].live]_vars

C7_Witness ==
  /\ status = "running"
  /\ last.ins.op = RET
  /\ last.depth = 2
  /\ DOMAIN Top.allocas # {}
  /\ \E r \in DOMAIN Top.values \cap DOMAIN last.pre.values :
       /\ Top.values[r] # last.pre.values[r]
       /\ r \in DOMAIN last.pre.allocas

\* C8: the RET step releases every allocation made in the popped frame and
\* no other: right after it no region created at the popped depth is live,
\* the regions of the frames that remain are as they were, and at all times
\* a live region belongs to a frame on the stack.
C8_ReleasedOnReturn ==
  /\ [](\A k \in Slots : heap[k].live => heap[k].owner \in 1..Len(stack))
  /\ [][Len(stack') < Len(stack) =>
          \A k \in Slots :
            /\ (heap[k].live /\ heap[k].owner = Len(stack)) => ~heap'[k].live
            /\ (heap[k].live /\ heap[k].owner < Len(stack)) => heap'[k] = heap[k]]_vars

\* Callee has returned; its region is released while the caller's region
\* holds that region's address
C8_Witness ==
  /\ status = "running"
  /\ last.ins.op = RET
  /\ last.depth = 2
  /\ \E r \in DOMAIN last.pre.allocas, j \in Slots :
       /\ last.pre.allocas[r].base # Zero
       /\ ~heap[SlotOf(last.pre.allocas[r].base)].live
       /\ heap[j].live
       /\ heap[j].owner = 1
       /\ Peek(mem, j * SlotBytes) = {last.pre.allocas[r].base}

\* C9: after ALLOCA(reg, size) the address bound to reg is that of a live
\* region recorded as owned by the frame, and it stays so while the frame is
\* on the stack: a register that an ALLOCA of the frame bound and nothing
\* rebound never holds the address of a released region.
C9_AllocaLiveWhileFramed ==
  (last.ins.op = ALLOCA /\ status = "running") =>
    LET reg == Get(last.ins, 0)
        p == Top.values[reg]
    IN p # Zero =>
         /\ heap[SlotOf(p)].live
         /\ heap[SlotOf(p)].owner = Len(stack)
         /\ reg \in DOMAIN Top.allocas
         /\ Top.allocas[reg].base = p

\* C10: BR on a bound register sets the top frame's index to 0 and its block
\* id to trueBlock for a non-zero value, of either sign, and to falseBlock
\* for zero; registers, allocations, memory, output and the other frames are
\* as they were, and the next fetch is of the first instruction of that
\* block.
C10_Branch ==
  [][(NextIns.op = BR /\ Get(NextIns, 0) \in DOMAIN Top.values) =>
       LET v == Top.values[Get(NextIns, 0)]
           target == IF v # Zero THEN Get(NextIns, 1) ELSE Get(NextIns, 2)
       IN /\ Len(stack') = Len(stack)
          /\ LowerFramesKept
          /\ stack'[Len(stack)] = [Top EXCEPT !.pc = [f |-> Top.pc.f, ib |-> target, ii |-> 0]]
          /\ status' = "running"
          /\ UNCHANGED <<prog, heap, mem, out, calls>>
          /\ (target \in DOMAIN TopBlocks /\ TopBlocks[target].body_ # <<>>) =>
               NextIns' = TopBlocks[target].body_[1]]_vars

C10_Witness ==
  /\ status = "running"
  /\ last.ins.op = BR
  /\ Get(last.ins, 0) \in DOMAIN last.pre.values
  /\ IsNeg(last.pre.values[Get(last.ins, 0)])
  /\ Get(last.ins, 1) # Get(last.ins, 2)
  /\ Top.pc.ib = Get(last.ins, 1)
  /\ Top.pc.ii = 0
  /\ NextIns.op = DEBUG

\* the ordering of two signed 64-bit values: the most significant limb in
\* which they differ decides, the top limb read with its sign bit flipped
Ordering(a, b) ==
  IF a = b THEN EQ
  ELSE LET k == CHOOSE n \in 1..4 : a[n] # b[n] /\ \A j \in (n + 1)..4 : a[j] = b[j]
           key(x) == IF k = 4 THEN (x + Limb \div 2) % Limb ELSE x
       IN IF key(a[k]) < key(b[k]) THEN LT ELSE GT

\* the last instruction ran in the frame that is still the top one
InTopFrame == status = "running" /\ last.depth = Len(stack)

\* C11: CMP(dst, cond, a, b) on bound a and b binds dst to 1 when the
\* ordering of value(a) and value(b) (LT -1, EQ 0, GT 1) equals cond and to 0
\* otherwise, whatever cond is and also when dst, a and b coincide; it binds
\* nothing else.
C11_Compare ==
  (InTopFrame /\ last.ins.op = CMP
     /\ {Get(last.ins, 2), Get(last.ins, 3)} \subseteq DOMAIN last.pre.values) =>
    LET a == last.pre.values[Get(last.ins, 2)]
        b == last.pre.values[Get(last.ins, 3)]
        bit == IF I(Ordering(a, b)) = Get(last.ins, 1) THEN I(1) ELSE I(0)
    IN /\ Top.values = Put(last.pre.values, Get(last.ins, 0), bit)
       /\ Get(last.ins, 2) = Get(last.ins, 3) =>
            Top.values[Get(last.ins, 0)] = (IF Get(last.ins, 1) = I(EQ) THEN I(1) ELSE I(0))
       /\ Get(last.ins, 1) \notin {I(LT), I(EQ), I(GT)} =>
            Top.values[Get(last.ins, 0)] = I(0)

\* MinInt64 compared LT with 1 gives 1
C11_Witness ==
  /\ InTopFrame
  /\ last.ins = iCMP(3, LT, 1, 2)
  /\ last.pre.values[I(1)] = MinInt64
  /\ last.pre.values[I(2)] = I(1)
  /\ Top.values[I(3)] = I(1)

\* (a + b) mod 2^64, added byte by byte with the carries rippling upward
SumMod64(a, b) ==
  LET byte(x, j) == (x[(j \div 2) + 1] \div (256 ^ (j % 2))) % 256
      carry[j \in 0..8] ==
        IF j = 0 THEN 0 ELSE (byte(a, j - 1) + byte(b, j - 1) + carry[j - 1]) \div 256
      sum(j) == (byte(a, j) + byte(b, j) + carry[j]) % 256
  IN [k \in 1..4 |-> sum(2 * k - 2) + 256 * sum(2 * k - 1)]

\* the top frame after the last instruction: the frame before it, one
\* instruction further, with the register map regs
FrameWith(regs) ==
  [last.pre EXCEPT !.pc.ii = @ + 1, !.values = regs]

\* C12: ADD(dst, a, b) on bound a and b binds dst to (value(a) + value(b))
\* mod 2^64 read as a signed 64-bit value, wrapping on overflow, also when
\* dst is a or b, and changes nothing else of the frame; no ADD faults.
C12_AddWraps ==
  last.ins.op = ADD =>
    /\ status # "fault"
    /\ (InTopFrame /\ {Get(last.ins, 1), Get(last.ins, 2)} \subseteq DOMAIN last.pre.values) =>
         Top = FrameWith(Put(last.pre.values, Get(last.ins, 0),
                             SumMod64(last.pre.values[Get(last.ins, 1)],
                                      last.pre.values[Get(last.ins, 2)])))

\* INT64_MAX + 1 into the register that held INT64_MAX gives INT64_MIN
C12_Witness ==
  /\ InTopFrame
  /\ last.ins = iADD(1, 1, 2)
  /\ last.pre.values[I(1)] = MaxInt64
  /\ last.pre.values[I(2)] = I(1)
  /\ Top.values[I(1)] = MinInt64

\* ADD with its two source registers exchanged
Swapped(i) == Ins(ADD, <<Get(i, 0), Get(i, 2), Get(i, 1)>>)

\* C13: ADD(dst, a, b) leaves the frame in the state ADD(dst, b, a) leaves
\* it in from the same state, overflow included.
C13_AddCommutes ==
  (InTopFrame /\ last.ins.op = ADD) =>
    Top = AddCtx([last.pre EXCEPT !.pc.ii = @ + 1], Swapped(last.ins))

\* INT64_MIN + (-1) overflows to INT64_MAX
C13_Witness ==
  /\ InTopFrame
  /\ last.ins = iADD(3, 2, 1)
  /\ last.pre.values[I(2)] = MinInt64
  /\ last.pre.values[I(1)] = I(-1)
  /\ Top.values[I(3)] = MaxInt64

\* the line a literal of the trace programs is printed as
Shown(v) ==
  CASE v = I(4096) -> "4096"
    [] v = I(-1024) -> "-1024"
    [] v = Zero -> "0"

\* the positions among the first n of body that hold a DEBUG
DebugsIn(body, n) == {k \in 1..n : body[k].op = DEBUG}

\* the positions before k that hold an IMM to the register of the DEBUG at k
ImmsBefore(body, k) ==
  {j \in 1..(k - 1) : body[j].op = IMM /\ Get(body[j], 0) = Get(body[k], 0)}

\* the greatest element of a non-empty set of positions
Latest(S) == CHOOSE j \in S : \A m \in S : m <= j

\* C14: a program of IMM and DEBUG only, every DEBUG after an IMM to its
\* register, emits one line per DEBUG executed, in instruction order, the
\* k-th line being the literal that the latest earlier IMM bound to that
\* DEBUG's register, and emits nothing else.
C14_TraceOutput ==
  (prog \in TracePrograms /\ last.pre.pc.f = 1) =>
    LET body == prog[1].basic_blocks_[I(0)].body_
        n == IF status = "running" THEN Top.pc.ii ELSE Len(body)
        D == DebugsIn(body, n)
    IN (\A k \in DebugsIn(body, Len(body)) : ImmsBefore(body, k) # {}) =>
         /\ status # "fault"
         /\ Len(out) = Cardinality(D)
         /\ \A k \in D :
              out[Cardinality({j \in D : j <= k})]
                = Shown(Get(body[Latest(ImmsBefore(body, k))], 1))

\* IMM r1 4096, IMM r1 -1024, DEBUG r1 has run and printed -1024 only
C14_Witness ==
  /\ prog[1] = Single(<<iIMM(1, I(4096)), iIMM(1, I(-1024)), iDEBUG(1), iRET>>)
  /\ last.pre.pc.f = 1
  /\ status = "done"
  /\ out = <<"-1024">>

\* C15: DEBUG(reg) appends one line and advances the instruction index and
\* does nothing else: for every reg the frame's register map (the set of
\* bound registers and their values), its allocations and its block id, and
\* the call stack below it, are what they were before the DEBUG.
C15_DebugOnlyPrints ==
  last.ins.op = DEBUG =>
    /\ InTopFrame
    /\ Top = FrameWith(last.pre.values)

\* the regions owned by the frames below the top stay as they are
LowerAllocasKept ==
  \A k \in Slots :
    (heap[k].live /\ heap[k].owner < Len(stack)) => heap'[k] = heap[k]

\* C16: a step acts on the top frame only.  The frames below the top keep
\* their registers, allocations and pc, and their regions stay allocated.
\* A CALL that does not fault makes the stack one deeper and leaves its
\* caller's registers and allocations alone, a RET makes it one shallower,
\* every other instruction leaves the depth as it is.
C16_TopFrameOnly ==
  [][status = "running" =>
       /\ LowerFramesKept
       /\ LowerAllocasKept
       /\ Len(stack') =
            (CASE last'.ins.op = CALL /\ status' = "running" -> Len(stack) + 1
               [] last'.ins.op = RET -> Len(stack) - 1
               [] OTHER -> Len(stack))
       /\ (last'.ins.op = CALL /\ status' = "running") =>
            /\ stack'[Len(stack)].values = Top.values
            /\ stack'[Len(stack)].allocas = Top.allocas]_vars

\* Leaf has run an ALLOCA at depth 3 over a main with registers and a
\* Callee with a region
C16_Witness ==
  /\ Len(stack) = 3
  /\ InTopFrame
  /\ last.ins.op = ALLOCA
  /\ stack[1].values # EmptyMap
  /\ stack[2].allocas # EmptyMap

\* the program is well formed: every block ends in a BR or a RET, every
\* entry id and every BR target is a block of its function, every CALL
\* operand is the address of a Function
WellFormed ==
  \A f \in DOMAIN prog :
    LET blocks == prog[f].basic_blocks_
    IN /\ Entry(prog[f]) \in DOMAIN blocks
       /\ \A b \in DOMAIN blocks :
            LET body == blocks[b].body_
            IN /\ body # <<>>
               /\ body[Len(body)].op \in {BR, RET}
               /\ \A k \in 1..Len(body) :
                    /\ body[k].op = BR =>
                         {Get(body[k], 1), Get(body[k], 2)} \subseteq DOMAIN blocks
                    /\ body[k].op = CALL => Resolved(Get(body[k], 0)) # {}

\* C17: in a run of a well-formed program the top frame's block id is a
\* block of its function and its instruction index is below that block's
\* length whenever an instruction is about to be fetched, and no fetch
\* fails.
C17_FetchInBounds ==
  WellFormed =>
    /\ status = "running" => AtInstruction
    /\ status = "fault" => last.ins # NoIns

\* the counter has branched back into its loop block and is at its start
C17_Witness ==
  /\ prog = Counter
  /\ WellFormed
  /\ InTopFrame
  /\ last.ins.op = BR
  /\ out # <<>>
  /\ Top.pc.ib = I(1)
  /\ AtInstruction

\* C18: no step of a run changes the program: every Function keeps its
\* entry id, its set of block ids and every block's instructions, also at
\* a fetch whose block id is not a block of the function.
C18_ProgramUnchanged == [][prog' = prog]_vars

\* v is the address of eight bytes inside a live region of the top frame
OwnValid8(v) ==
  \E k \in Slots :
    /\ heap[k].live
    /\ heap[k].owner = Len(stack)
    /\ Index(v) >= k * SlotBytes
    /\ Index(v) + 8 <= k * SlotBytes + heap[k].size

\* byte j of a 64-bit value in memory order, and the value of eight bytes
ByteAt(v, j) == (v[(j \div 2) + 1] \div (256 ^ (j % 2))) % 256

ValueAt(m, idx) == [k \in 1..4 |-> m[idx + 2 * k - 2] + 256 * m[idx + 2 * k - 1]]

\* a STORE through an address of the frame's own live region writes the
\* source value's eight bytes there and changes no register and no region
StoreStep ==
  (NextIns.op = STORE
     /\ {Get(NextIns, 0), Get(NextIns, 1)} \subseteq DOMAIN Top.values
     /\ OwnValid8(Top.values[Get(NextIns, 1)])) =>
    /\ status' = "running"
    /\ stack' = SetTop([Top EXCEPT !.pc.ii = @ + 1])
    /\ heap' = heap
    /\ \A x \in DOMAIN mem :
         LET at == x - Index(Top.values[Get(NextIns, 1)])
         IN mem'[x] = IF at \in 0..7 THEN ByteAt(Top.values[Get(NextIns, 0)], at) ELSE mem[x]

\* a LOAD through such an address whose bytes have been written binds dst
\* to their value and changes nothing else
LoadStep ==
  (NextIns.op = LOAD
     /\ Get(NextIns, 1) \in DOMAIN Top.values
     /\ OwnValid8(Top.values[Get(NextIns, 1)])
     /\ \A j \in 0..7 : mem[Index(Top.values[Get(NextIns, 1)]) + j] >= 0) =>
    /\ status' = "running"
    /\ stack' = SetTop([Top EXCEPT
                          !.pc.ii = @ + 1,
                          !.values = Put(@, Get(NextIns, 0),
                                         ValueAt(mem, Index(Top.values[Get(NextIns, 1)])))])
    /\ mem' = mem
    /\ heap' = heap

\* a step that is no STORE keeps the bytes of every region it does not release
BytesKept ==
  NextIns.op # STORE =>
    \A x \in DOMAIN mem :
      (heap[x \div SlotBytes].live /\ heap'[x \div SlotBytes].live) => mem'[x] = mem[x]

\* a LOAD right after a STORE through the same address register binds dst
\* to the value the STORE's source register had
StoreThenLoad ==
  (NextIns.op = LOAD /\ last.ins.op = STORE /\ InTopFrame
     /\ Top.pc.ii >= 1
     /\ TopBlocks[Top.pc.ib].body_[Top.pc.ii] = last.ins
     /\ Get(last.ins, 1) = Get(NextIns, 1)
     /\ {Get(last.ins, 0), Get(last.ins, 1)} \subseteq DOMAIN last.pre.values
     /\ OwnValid8(Top.values[Get(NextIns, 1)])) =>
    /\ status' = "running"
    /\ stack'[Len(stack)].values[Get(NextIns, 0)] = last.pre.values[Get(last.ins, 0)]

\* C19: through the address of eight bytes inside a live region of the
\* current frame, STORE(src, addr) followed later in that frame by
\* LOAD(dst, addr) binds dst to the value src had at the STORE, as long as no
\* STORE in between overlaps those bytes and the region is not released;
\* the STORE changes no register and the LOAD changes only dst.
C19_StoreLoadRoundTrip ==
  /\ [][StoreStep /\ LoadStep /\ BytesKept /\ StoreThenLoad]_vars
  /\ []((prog = RoundTrip /\ last.pre.pc.f = 1 /\ out # <<>>) => out = <<"4096">>)

\* the round trip program has printed what it loaded back and ended
C19_Witness ==
  /\ prog = RoundTrip
  /\ status = "done"
  /\ out = <<"4096">>

\* the instructions of Function f, over all its blocks
InsOf(f) ==
  UNION {{prog[f].basic_blocks_[b].body_[k] :
            k \in 1..Len(prog[f].basic_blocks_[b].body_)} :
         b \in DOMAIN prog[f].basic_blocks_}

\* the blocks the BRs of block b of Function f name
BrSucc(f, b) ==
  LET body == prog[f].basic_blocks_[b].body_
  IN UNION {{Get(body[k], 1), Get(body[k], 2)} : k \in {j \in 1..Len(body) : body[j].op = BR}}

\* the Functions the CALLs of Function f designate
CallSucc(f) == UNION {Resolved(Get(i, 0)) : i \in {j \in InsOf(f) : j.op = CALL}}

\* the nodes reachable from n in one or more steps of the successor map
\* succ over the nodes N
ReachFrom(succ, N, n) ==
  LET R[k \in 0..Cardinality(N)] ==
        IF k = 0 THEN succ[n] \cap N
        ELSE R[k - 1] \cup (UNION {succ[m] : m \in R[k - 1]} \cap N)
  IN R[Cardinality(N)]

\* the number of CALLs on the longest chain of calls that starts in f
\* (chains of more CALLs than there are Functions are cut there)
ChainLen(f) ==
  LET C[x \in (DOMAIN prog) \X (0..Len(prog))] ==
        IF x[2] = 0 \/ CallSucc(x[1]) = {} THEN 0
        ELSE LET below == {C[<<g, x[2] - 1>>] : g \in CallSucc(x[1])}
             IN 1 + (CHOOSE m \in below : \A n \in below : n <= m)
  IN C[<<f, Len(prog)>>]

\* a well-formed program whose BR graphs and CALL graph have no cycle and
\* which holds no unknown opcode
Acyclic ==
  /\ WellFormed
  /\ \A f \in DOMAIN prog :
       /\ \A i \in InsOf(f) : i.op \in Opcodes
       /\ f \notin ReachFrom([g \in DOMAIN prog |-> CallSucc(g)], DOMAIN prog, f)
       /\ \A b \in DOMAIN prog[f].basic_blocks_ :
            b \notin ReachFrom([c \in DOMAIN prog[f].basic_blocks_ |-> BrSucc(f, c)],
                               DOMAIN prog[f].basic_blocks_, b)

\* the stack is no deeper than the longest chain of CALLs from the entered
\* Function, plus one
DepthBounded == stack # <<>> => Len(stack) <= ChainLen(stack[1].pc.f) + 1

\* the run was aborted by a LOAD or STORE
MemoryFault == status = "fault" /\ last.ins.op \in {LOAD, STORE}

\* the claim as stated: every run of an acyclic well-formed program reaches
\* an empty call stack, within the depth bound
C20_ReachesEmptyStack ==
  /\ [](Acyclic => DepthBounded)
  /\ (Acyclic /\ status = "running") ~> (status = "done")

\* C20: every run of a well-formed program without cycles and unknown
\* opcodes reaches an empty call stack unless a LOAD or STORE aborts it, and
\* its stack is never deeper than the longest chain of CALLs plus one.
C20_Terminates ==
  /\ [](Acyclic => DepthBounded)
  /\ (Acyclic /\ status = "running") ~> (status = "done" \/ MemoryFault)

\* F called Callee, Callee called Leaf, both callers printed after the
\* return and the run ended
C20_Witness ==
  /\ Acyclic
  /\ status = "done"
  /\ ChainLen(1) = 2
  /\ out = <<"3", "7">>

====
